---- MODULE Spec2Model ----
(***************************************************************************)
(* cli_audit.py: the probe execution and heuristic evaluation engine.      *)
(*                                                                         *)
(* Text is a sequence of characters.  A printable ASCII character is the   *)
(* one-character string itself; the control bytes and the two non-ASCII    *)
(* values the model needs are named: "BEL" (0x07), "TAB" (0x09), "LF"      *)
(* (0x0A), "CR" (0x0D), "ESC" (0x1B), "GRAVE" (0x60), "xFF" (a byte that  *)
(* is not valid UTF-8) and "uFFFD" (the replacement character).            *)
(*                                                                         *)
(* main is one sequential process.  It blocks only inside run_cmd, so its  *)
(* steps are: the pre-flight checks; for each probe the entry into         *)
(* subprocess.run (the child starts, or the spawn fails) and the end of    *)
(* the wait (the child exits, or the timeout expires), each followed by    *)
(* the rule evaluation up to the next run_cmd call.  The audited command   *)
(* is the environment: what it prints and how it ends is chosen freely     *)
(* for every probe.  format_findings and --print-output only print and     *)
(* are left out; args.timeout is the moment ChildTimeout may happen.       *)
(***************************************************************************)
EXTENDS Integers, Sequences, FiniteSets, TLC

\* Largest exit status a modelled child returns (statuses are 0..MaxExit).
MaxExit == 1

-----------------------------------------------------------------------------
(* Characters *)

Printable ==
    << " ", "!", "\"", "#", "$", "%", "&", "'", "(", ")", "*", "+", ",", "-", ".", "/",
       "0", "1", "2", "3", "4", "5", "6", "7", "8", "9", ":", ";", "<", "=", ">", "?",
       "@", "A", "B", "C", "D", "E", "F", "G", "H", "I", "J", "K", "L", "M", "N", "O",
       "P", "Q", "R", "S", "T", "U", "V", "W", "X", "Y", "Z", "[", "\\", "]", "^", "_",
       "GRAVE", "a", "b", "c", "d", "e", "f", "g", "h", "i", "j", "k", "l", "m", "n", "o",
       "p", "q", "r", "s", "t", "u", "v", "w", "x", "y", "z", "{", "|", "}", "~" >>

\* Code point of a character.
Ord(c) ==
    CASE c = "BEL" -> 7
      [] c = "TAB" -> 9
      [] c = "LF" -> 10
      [] c = "CR" -> 13
      [] c = "ESC" -> 27
      [] c = "xFF" -> 255
      [] c = "uFFFD" -> 65533
      [] OTHER -> 31 + (CHOOSE i \in 1..Len(Printable) : Printable[i] = c)

InRange(c, lo, hi) == Ord(lo) <= Ord(c) /\ Ord(c) <= Ord(hi)

\* str.isspace() on the characters of the model.
IsSpace(c) == c \in {" ", "TAB", "LF", "CR"}

\* str.lower() of one character.
LowerChar(c) == IF InRange(c, "A", "Z") THEN Printable[Ord(c) - 31 + 32] ELSE c

Lower(t) == [i \in 1..Len(t) |-> LowerChar(t[i])]

\* pat occurs in t at position i.
MatchAt(t, i, pat) ==
    /\ i + Len(pat) - 1 <= Len(t)
    /\ \A k \in 1..Len(pat) : t[i + k - 1] = pat[k]

\* The Python test: pat in t.
Contains(t, pat) == \E i \in 1..(Len(t) + 1) : MatchAt(t, i, pat)

\* str.strip(): leading and trailing whitespace removed.
Strip(t) ==
    LET solid == {i \in 1..Len(t) : ~IsSpace(t[i])}
    IN  IF solid = {} THEN <<>>
        ELSE LET lo == CHOOSE i \in solid : \A j \in solid : i <= j
                 hi == CHOOSE i \in solid : \A j \in solid : j <= i
             IN  SubSeq(t, lo, hi)

\* The text as one string (the details of a Finding are a string).
RECURSIVE Str(_)
Str(t) == IF t = <<>> THEN "" ELSE t[1] \o Str(Tail(t))

\* bytes.decode("utf-8", errors="replace"): an invalid byte becomes U+FFFD.
_decode(b) == [i \in 1..Len(b) |-> IF b[i] = "xFF" THEN "uFFFD" ELSE b[i]]

-----------------------------------------------------------------------------
(* OutputAnalyzer *)

\* First position >= i of s whose character is outside [lo-hi] (Len(s)+1 if none).
RECURSIVE SkipRange(_, _, _, _)
SkipRange(s, i, lo, hi) ==
    IF i <= Len(s) /\ InRange(s[i], lo, hi) THEN SkipRange(s, i + 1, lo, hi) ELSE i

\* \[ [0-?]* [ -/]* [@-~] with the "[" at position i.
CsiAt(s, i) ==
    /\ i <= Len(s) /\ s[i] = "["
    /\ LET j == SkipRange(s, SkipRange(s, i + 1, "0", "?"), " ", "/")
       IN  j <= Len(s) /\ InRange(s[j], "@", "~")

\* \] .*? (?:\x07|\x1b\\) with the "]" at position i (DOTALL: . is any character).
OscAt(s, i) ==
    /\ i <= Len(s) /\ s[i] = "]"
    /\ \E j \in (i + 1)..Len(s) :
          \/ s[j] = "BEL"
          \/ s[j] = "ESC" /\ j + 1 <= Len(s) /\ s[j + 1] = "\\"

\* [@-Z\\-_] at position i.
TwoCharAt(s, i) ==
    /\ i <= Len(s)
    /\ (InRange(s[i], "@", "Z") \/ InRange(s[i], "\\", "_"))

\* ANSI_RE.search(s)
ANSI_RE(s) ==
    \E i \in 1..Len(s) :
        /\ s[i] = "ESC"
        /\ (CsiAt(s, i + 1) \/ OscAt(s, i + 1) \/ TwoCharAt(s, i + 1))

has_ansi(s) == ANSI_RE(s)

has_carriage_returns(s) == Contains(s, <<"CR">>)

looks_like_help(text) ==
    LET t == Lower(text)
    IN  \E k \in { <<"u", "s", "a", "g", "e", ":">>,
                   <<"LF", "u", "s", "a", "g", "e">>,
                   <<"s", "y", "n", "o", "p", "s", "i", "s">>,
                   <<"o", "p", "t", "i", "o", "n", "s">>,
                   <<"c", "o", "m", "m", "a", "n", "d", "s">> } : Contains(t, k)

\* re.search(r"(^|\s)-X(\s|,|$)", t) for the short flag -X ($ also matches
\* before a final newline, which \s covers).
ShortFlag(t, x) ==
    \E i \in 1..Len(t) :
        /\ MatchAt(t, i, <<"-", x>>)
        /\ (i = 1 \/ IsSpace(t[i - 1]))
        /\ (i + 2 > Len(t) \/ IsSpace(t[i + 2]) \/ t[i + 2] = ",")

find_flag_mentions(t) ==
    [ help     |-> Contains(t, <<"-", "-", "h", "e", "l", "p">>),
      h        |-> ShortFlag(t, "h"),
      version  |-> Contains(t, <<"-", "-", "v", "e", "r", "s", "i", "o", "n">>),
      json     |-> Contains(t, <<"-", "-", "j", "s", "o", "n">>),
      plain    |-> Contains(t, <<"-", "-", "p", "l", "a", "i", "n">>),
      no_color |-> Contains(t, <<"-", "-", "n", "o", "-", "c", "o", "l", "o", "r">>),
      NO_COLOR |-> Contains(t, <<"N", "O", "_", "C", "O", "L", "O", "R">>),
      no_input |-> Contains(t, <<"-", "-", "n", "o", "-", "i", "n", "p", "u", "t">>),
      dry_run  |-> Contains(t, <<"-", "-", "d", "r", "y", "-", "r", "u", "n">>),
      force    |-> Contains(t, <<"-", "-", "f", "o", "r", "c", "e">>),
      quiet    |-> Contains(t, <<"-", "-", "q", "u", "i", "e", "t">>) \/ ShortFlag(t, "q"),
      verbose  |-> Contains(t, <<"-", "-", "v", "e", "r", "b", "o", "s", "e">>)
                      \/ ShortFlag(t, "v"),
      debug    |-> Contains(t, <<"-", "-", "d", "e", "b", "u", "g">>) \/ ShortFlag(t, "d") ]

-----------------------------------------------------------------------------
(* Sample outputs of the audited command *)

Empty == <<>>

\* Only whitespace.
Blank == << " ", "LF" >>

\* Usage: x\nOptions:\n  --help
UsageText ==
    << "U", "s", "a", "g", "e", ":", " ", "x", "LF", "O", "p", "t", "i", "o", "n", "s",
       ":", "LF", " ", " ", "-", "-", "h", "e", "l", "p" >>

\* a help text that mentions every convention the audit looks for
FullHelp ==
    << "u", "s", "a", "g", "e", ":", " ", "x", " ", "-", "-", "v", "e", "r", "s", "i",
       "o", "n", " ", "-", "-", "j", "s", "o", "n", " ", "-", "-", "p", "l", "a", "i",
       "n", " ", "N", "O", "_", "C", "O", "L", "O", "R", " ", "-", "-", "n", "o", "-",
       "i", "n", "p", "u", "t" >>

\* coloured output that ends with a carriage return
AnsiText ==
    << "ESC", "[", "3", "1", "m", "h", "i", "ESC", "[", "0", "m", "CR" >>

\* an OSC sequence (window title)
OscText ==
    << "ESC", "]", "0", ";", "t", "BEL" >>

PlainText ==
    << "r", "a", "n", "d", "o", "m", " ", "t", "e", "x", "t" >>

ErrText ==
    << "u", "n", "k", "n", "o", "w", "n", " ", "f", "l", "a", "g", "LF", "S", "e", "e",
       " ", "-", "-", "h", "e", "l", "p" >>

TraceText ==
    << "p", "a", "n", "i", "c", ":", " ", "b", "o", "o", "m" >>

\* output that is not valid UTF-8
BadBytes ==
    << "o", "k", "xFF" >>

\* the diagnostic run_cmd synthesizes
NotFoundText ==
    << "C", "o", "m", "m", "a", "n", "d", " ", "n", "o", "t", " ", "f", "o", "u", "n",
       "d", "." >>

-----------------------------------------------------------------------------
(* Data model *)

\* Optional[int]: None is the empty sequence, a value c is <<c>>.
None == <<>>

Some(c) == <<c>>

RunResult(argv, returncode, stdout, stderr, timed_out) ==
    [argv |-> argv, returncode |-> returncode, stdout |-> stdout, stderr |-> stderr,
     timed_out |-> timed_out]

\* The value of a result variable main has not assigned yet.
Unassigned == RunResult(<<>>, None, <<>>, <<>>, FALSE)

Finding(level, title, details) == [level |-> level, title |-> title, details |-> details]

\* The five probes, in the order main runs them.
Probes == <<"help", "h", "bad", "no_color", "dumb_term">>

ProbeSet == {Probes[i] : i \in 1..Len(Probes)}

\* The argument each probe appends to the command.
ProbeArg(p) ==
    CASE p = "help" -> "--help"
      [] p = "h" -> "-h"
      [] p = "bad" -> "--definitely-not-a-real-flag-xyz"
      [] p = "no_color" -> "--help"
      [] p = "dumb_term" -> "--help"

\* The env_overrides each probe passes to run_cmd (a function from names to values).
EnvOverrides(p) ==
    CASE p = "no_color" -> [k \in {"NO_COLOR"} |-> "1"]
      [] p = "dumb_term" -> [k \in {"TERM"} |-> "dumb"]
      [] OTHER -> [k \in {} |-> ""]

\* dict.update: the keys of ov take the values of ov, the others keep theirs.
Update(env, ov) ==
    [k \in (DOMAIN env) \cup (DOMAIN ov) |-> IF k \in DOMAIN ov THEN ov[k] ELSE env[k]]

-----------------------------------------------------------------------------
(* Inputs *)

\* args.cmd as argparse hands it over.
ArgsCmd == {<<>>, <<"--">>, <<"--", "tool">>, <<"tool">>}

\* os.environ of the auditing process.
Environs ==
    { [k \in {"PATH", "TERM"} |-> IF k = "PATH" THEN "/bin" ELSE "xterm"],
      [k \in {"PATH", "TERM", "NO_COLOR"} |->
          IF k = "PATH" THEN "/bin" ELSE IF k = "TERM" THEN "dumb" ELSE "0"] }

ExitCodes == 0..MaxExit

\* What a child that runs to its end may leave: exit status, stdout and stderr bytes.
Exits(p) ==
    CASE p = "help" ->
            {[code |-> c, out |-> o, err |-> e] :
                c \in ExitCodes, o \in {Empty, Blank, FullHelp, AnsiText},
                e \in {Empty, UsageText}}
      [] p = "h" ->
            {[code |-> c, out |-> o, err |-> Empty] :
                c \in {0, MaxExit}, o \in {Empty, UsageText}}
      [] p = "bad" ->
            {[code |-> c, out |-> o[1], err |-> o[2]] :
                c \in ExitCodes,
                o \in {<<Empty, ErrText>>, <<Empty, Blank>>, <<TraceText, Empty>>}}
      [] p = "no_color" ->
            {[code |-> 0, out |-> PlainText, err |-> Empty],
             [code |-> MaxExit, out |-> BadBytes, err |-> OscText]}
      [] p = "dumb_term" ->
            {[code |-> 0, out |-> UsageText, err |-> Empty],
             [code |-> MaxExit, out |-> AnsiText, err |-> Empty]}

\* What a child had written when the timeout struck (the partial output).
Partials(p) ==
    CASE p = "help" -> {[out |-> Empty, err |-> Empty], [out |-> UsageText, err |-> Empty]}
      [] p = "no_color" -> {[out |-> Empty, err |-> Empty], [out |-> AnsiText, err |-> Empty]}
      [] OTHER -> {[out |-> Empty, err |-> Empty]}

-----------------------------------------------------------------------------
(* ProbeSuite: rule evaluation *)

\* a + "\n" + b
JoinLF(a, b) == a \o <<"LF">> \o b

\* Python: x or y (x when it is not empty).
OrElse(x, y) == IF x # "" THEN x ELSE y

Normal(r) == ~r.timed_out /\ r.returncode # None

\* The exit-status finding of the --help probe.
HelpExitFinding(code) ==
    IF code # 0
    THEN Finding("FAIL", "--help exit code was " \o ToString(code), "Help should exit 0.")
    ELSE Finding("PASS", "--help exits with code 0", "")

\* The output finding of the --help probe.
HelpOutputFinding(r) ==
    LET combined == Strip(JoinLF(r.stdout, r.stderr))
    IN  IF combined = <<>>
        THEN Finding("FAIL", "--help produced no output", "")
        ELSE IF looks_like_help(combined)
        THEN Finding("PASS",
               "--help output looks like help (usage/options/commands detected)", "")
        ELSE Finding("WARN", "--help output did not obviously look like help",
                     "Check formatting and content.")

\* The channel finding of the --help probe.
HelpChannelFinding(r) ==
    IF Strip(r.stdout) # <<>> /\ Strip(r.stderr) = <<>>
    THEN Finding("PASS", "Help printed to stdout", "")
    ELSE IF Strip(r.stderr) # <<>> /\ Strip(r.stdout) = <<>>
    THEN Finding("WARN", "Help printed to stderr",
           "Common convention is help on stdout; stderr is typically for errors.")
    ELSE Finding("WARN", "Help printed to both stdout and stderr",
           "Prefer help on stdout; reserve stderr for errors/warnings.")

\* The findings of the --help probe.
EvalHelp(r) ==
    IF r.timed_out THEN
        <<Finding("FAIL", "--help timed out", "Help should return quickly.")>>
    ELSE IF r.returncode = None THEN
        <<Finding("FAIL", "--help failed to execute",
                  OrElse(Str(Strip(r.stderr)), "Unknown error."))>>
    ELSE
        <<HelpExitFinding(r.returncode[1]), HelpOutputFinding(r), HelpChannelFinding(r)>>

\* EvalH with the timeout reported as a failure.
EvalHFails(r) ==
    IF r.timed_out THEN
        <<Finding("FAIL", "-h timed out", "If you support -h, it should return quickly.")>>
    ELSE IF r.returncode = Some(0) /\ (Strip(r.stdout) # <<>> \/ Strip(r.stderr) # <<>>) THEN
        <<Finding("PASS", "-h works (exit 0)", "")>>
    ELSE
        <<Finding("WARN", "-h did not behave like help",
            "If you intentionally use -h for something else, consider avoiding that.")>>

\* The finding of the -h probe.
EvalH(r) ==
    IF r.timed_out THEN
        <<Finding("WARN", "-h timed out", "If you support -h, it should return quickly.")>>
    ELSE IF r.returncode = Some(0) /\ (Strip(r.stdout) # <<>> \/ Strip(r.stderr) # <<>>) THEN
        <<Finding("PASS", "-h works (exit 0)", "")>>
    ELSE
        <<Finding("WARN", "-h did not behave like help",
            "If you intentionally use -h for something else, consider avoiding that.")>>

noisy_markers ==
    { <<"T", "r", "a", "c", "e", "b", "a", "c", "k", " ", "(", "m", "o", "s", "t", " ",
        "r", "e", "c", "e", "n", "t", " ", "c", "a", "l", "l", " ", "l", "a", "s", "t", ")">>,
      <<"p", "a", "n", "i", "c", ":">>,
      <<"s", "t", "a", "c", "k", " ", "t", "r", "a", "c", "e">>,
      <<"S", "t", "a", "c", "k", " ", "t", "r", "a", "c", "e">> }

\* BadExitFinding with exit status 0 downgraded to a warning.
BadExitFindingWarns(code) ==
    IF code = 0
    THEN Finding("WARN", "Unknown flag returned exit code 0",
                 "Unknown flags should be an error.")
    ELSE Finding("PASS", "Unknown flag returns non-zero (" \o ToString(code) \o ")", "")

\* The exit-status finding of the invalid-flag probe.
BadExitFinding(code) ==
    IF code = 0
    THEN Finding("FAIL", "Unknown flag returned exit code 0",
                 "Unknown flags should be an error.")
    ELSE Finding("PASS", "Unknown flag returns non-zero (" \o ToString(code) \o ")", "")

\* The findings of the invalid-flag probe.
EvalBad(r) ==
    IF r.timed_out THEN
        <<Finding("FAIL", "Invalid-flag probe timed out",
                  "Invalid input should fail fast with guidance.")>>
    ELSE IF r.returncode = None THEN
        <<Finding("FAIL", "Invalid-flag probe failed to execute",
                  OrElse(Str(Strip(r.stderr)), "Unknown error."))>>
    ELSE
        LET both == r.stdout \o r.stderr
        IN  <<BadExitFinding(r.returncode[1])>>
            \o <<IF Strip(r.stderr) # <<>>
                 THEN Finding("PASS", "Unknown-flag error printed to stderr", "")
                 ELSE Finding("WARN", "Unknown-flag error not printed to stderr",
                              "Prefer errors on stderr.")>>
            \o <<IF Contains(both, <<"-", "-", "h", "e", "l", "p">>)
                 THEN Finding("PASS", "Unknown-flag error mentions --help", "")
                 ELSE Finding("WARN", "Unknown-flag error does not mention --help",
                              "Consider adding a hint to discover help.")>>
            \o (IF \E m \in noisy_markers : Contains(both, m)
                THEN <<Finding("WARN", "Error output includes a stack trace marker",
                               "Prefer stack traces only in --debug/--verbose mode.")>>
                ELSE <<>>)

\* The text the convention checks read: the captured --help result.
help_text(r) == JoinLF(r.stdout, r.stderr)

\* The five convention findings, from the text of the --help probe.
Conventions(r) ==
    LET flag_mentions == find_flag_mentions(help_text(r))
    IN  << IF flag_mentions.version
           THEN Finding("PASS", "Help mentions --version", "")
           ELSE Finding("WARN", "Help does not mention --version",
                        "Consider supporting --version for discoverability."),
           IF flag_mentions.json
           THEN Finding("PASS", "Help mentions --json", "")
           ELSE Finding("WARN", "Help does not mention --json",
                        "If scripts may consume output, consider a structured JSON mode."),
           IF flag_mentions.plain
           THEN Finding("PASS", "Help mentions --plain", "")
           ELSE Finding("WARN", "Help does not mention --plain",
                        "If human output is formatted, a stable plain mode helps scripting."),
           IF flag_mentions.no_color \/ flag_mentions.NO_COLOR
           THEN Finding("PASS",
                        "Help mentions color controls (--no-color and/or NO_COLOR)", "")
           ELSE Finding("WARN", "Help does not mention color controls",
                        "Consider supporting --no-color and NO_COLOR."),
           IF flag_mentions.no_input
           THEN Finding("PASS", "Help mentions --no-input", "")
           ELSE Finding("WARN", "Help does not mention --no-input",
                        "If you prompt, consider a non-interactive escape hatch.") >>

\* The ANSI and carriage-return findings, from the result of the --help probe.
AnsiChecks(r) ==
    <<IF has_ansi(r.stdout) \/ has_ansi(r.stderr)
      THEN Finding("WARN",
             "ANSI escape sequences detected in --help output (captured/non-TTY)",
             "Consider disabling color/formatting when output is not a TTY, or when NO_COLOR is set.")
      ELSE Finding("PASS", "No ANSI escape sequences detected in captured --help output", "")>>
    \o (IF has_carriage_returns(r.stdout) \/ has_carriage_returns(r.stderr)
        THEN <<Finding("WARN", "Carriage returns detected in --help output",
                 "This can indicate animations/progress behavior; ensure you don't animate when not a TTY.")>>
        ELSE <<>>)

\* The finding of the NO_COLOR=1 probe.
EvalNoColor(r) ==
    <<IF has_ansi(r.stdout) \/ has_ansi(r.stderr)
      THEN Finding("WARN", "ANSI still present with NO_COLOR=1",
                   "Consider honoring NO_COLOR to disable color output.")
      ELSE Finding("PASS", "NO_COLOR=1 produced no ANSI sequences (best-effort check)", "")>>

\* The finding of the TERM=dumb probe.
EvalDumbTerm(r) ==
    <<IF has_ansi(r.stdout) \/ has_ansi(r.stderr)
      THEN Finding("WARN", "ANSI still present with TERM=dumb",
                   "Consider disabling ANSI when TERM=dumb.")
      ELSE Finding("PASS", "TERM=dumb produced no ANSI sequences (best-effort check)", "")>>

-----------------------------------------------------------------------------
(* Aggregator *)

\* sum(1 for f in findings if f.level == level)
CountLevel(fs, level) == Cardinality({i \in 1..Len(fs) : fs[i].level = level})

\* ExitStatus with --strict ignored.
ExitStatusIgnoresStrict(fail, warn, strict_) == IF fail > 0 THEN 1 ELSE 0

\* The value main returns after the summary.
ExitStatus(fail, warn, strict_) ==
    IF fail > 0 THEN 1 ELSE IF strict_ /\ warn > 0 THEN 1 ELSE 0

-----------------------------------------------------------------------------
(* State *)

VARIABLES
    pc,        \* where main is: "preflight", "call_<probe>", "wait_<probe>", "done", "crashed"
    cmd,       \* args.cmd, then the command with a leading "--" removed
    located,   \* whether cmd[0] is on the PATH or an existing path (None: not looked up)
    strict,    \* args.strict
    environ,   \* os.environ of the auditing process
    findings,  \* the list of Finding
    res,       \* the RunResult of each probe (help_res, h_res, bad_res, ...)
    children,  \* the child processes that are alive (their position in calls)
    calls,     \* every subprocess.run call so far: the argv and env it passed
    summary,   \* the printed counts <<fail, warn>>, None before the summary
    exitCode   \* the value main returned, None before it returns

vars == <<pc, cmd, located, strict, environ, findings, res, children, calls, summary, exitCode>>

help_res == res["help"]

h_res == res["h"]

bad_res == res["bad"]

no_color_res == res["no_color"]

dumb_term_res == res["dumb_term"]

Call(p) == "call_" \o p

Wait(p) == "wait_" \o p

\* Where main goes after the probe p.
AfterProbe(p) ==
    CASE p = "help" -> Call("h")
      [] p = "h" -> Call("bad")
      [] p = "bad" -> Call("no_color")
      [] p = "no_color" -> Call("dumb_term")
      [] p = "dumb_term" -> "done"

Init ==
    /\ pc = "preflight"
    /\ cmd \in ArgsCmd
    /\ located = None
    /\ strict \in BOOLEAN
    /\ environ \in Environs
    /\ findings = <<>>
    /\ res = [p \in ProbeSet |-> Unassigned]
    /\ children = {}
    /\ calls = <<>>
    /\ summary = None
    /\ exitCode = None

-----------------------------------------------------------------------------
(* Pre-flight *)

\* main returns code before any probe.
Return(code) ==
    /\ pc' = "done"
    /\ exitCode' = Some(code)

\* The command after the recovery of a leading "--".
StripSeparator(c) == IF c # <<>> /\ c[1] = "--" THEN Tail(c) ELSE c

\* NotLocated without the fallback to an existing path.
NotLocatedOnPath(which_found, path_exists) == ~which_found

\* shutil.which(exe) is None and not os.path.exists(exe)
NotLocated(which_found, path_exists) == ~which_found /\ ~path_exists

Preflight ==
    /\ pc = "preflight"
    /\ IF cmd = <<>> THEN
           /\ Return(2)
           /\ UNCHANGED <<cmd, located>>
       ELSE IF StripSeparator(cmd) = <<>> THEN
           /\ cmd' = StripSeparator(cmd)
           /\ Return(2)
           /\ UNCHANGED located
       ELSE
           /\ cmd' = StripSeparator(cmd)
           /\ \E which_found \in BOOLEAN, path_exists \in BOOLEAN :
                 /\ located' = Some(which_found \/ path_exists)
                 /\ IF NotLocated(which_found, path_exists)
                    THEN Return(127)
                    ELSE pc' = Call("help") /\ UNCHANGED exitCode
    /\ UNCHANGED <<strict, environ, findings, res, children, calls, summary>>

-----------------------------------------------------------------------------
(* ProcessRunner: run_cmd *)

\* RunCmdEnv without the copy: the overrides land in os.environ itself.
RunCmdEnvInPlace(env, env_overrides) ==
    [child |-> Update(env, env_overrides), ambient |-> Update(env, env_overrides)]

\* env = os.environ.copy(); env.update(env_overrides): the env of the child and
\* os.environ after it.
RunCmdEnv(env, env_overrides) ==
    [child |-> Update(env, env_overrides), ambient |-> env]

\* subprocess.run with the child at its end: the child is waited for.
ReapExited(alive, pid) == alive \ {pid}

\* KillAndReap without the kill: the timed-out child stays alive.
KillAndReapLeaks(alive, pid) == alive

\* subprocess.run at the timeout: the child is killed and waited for.
KillAndReap(alive, pid) == alive \ {pid}

\* NewFindings with the convention and ANSI checks reading the result at hand
\* instead of the result of the --help probe.
NewFindingsOfLastResult(p, r, hr) ==
    CASE p = "help" -> EvalHelp(r)
      [] p = "h" -> EvalH(r)
      [] p = "bad" -> EvalBad(r) \o Conventions(r) \o AnsiChecks(r)
      [] p = "no_color" -> EvalNoColor(r)
      [] p = "dumb_term" -> EvalDumbTerm(r)

\* main, from the return of the run_cmd of probe p to the next run_cmd (or to the return).
NewFindings(p, r, hr) ==
    CASE p = "help" -> EvalHelp(r)
      [] p = "h" -> EvalH(r)
      [] p = "bad" -> EvalBad(r) \o Conventions(hr) \o AnsiChecks(hr)
      [] p = "no_color" -> EvalNoColor(r)
      [] p = "dumb_term" -> EvalDumbTerm(r)

Resume(p, r) ==
    /\ res' = [res EXCEPT ![p] = r]
    /\ findings' = findings \o NewFindings(p, r, help_res)
    /\ pc' = AfterProbe(p)
    /\ IF p = "dumb_term"
       THEN LET fail == CountLevel(findings', "FAIL")
                warn == CountLevel(findings', "WARN")
            IN  /\ summary' = <<fail, warn>>
                /\ exitCode' = Some(ExitStatus(fail, warn, strict))
       ELSE UNCHANGED <<summary, exitCode>>

\* run_cmd is entered: the env is built and subprocess.run is called with argv.
Enter(p) ==
    /\ pc = Call(p)
    /\ calls' = Append(calls, [argv |-> cmd \o <<ProbeArg(p)>>,
                               env |-> RunCmdEnv(environ, EnvOverrides(p)).child])
    /\ environ' = RunCmdEnv(environ, EnvOverrides(p)).ambient
    /\ UNCHANGED <<cmd, located, strict>>

\* The child process starts.
SpawnOk(p) ==
    /\ Enter(p)
    /\ children' = children \cup {Len(calls) + 1}
    /\ pc' = Wait(p)
    /\ UNCHANGED <<findings, res, summary, exitCode>>

\* The executable is not there: FileNotFoundError, answered with a RunResult.
SpawnNotFound(p) ==
    /\ Enter(p)
    /\ Resume(p, RunResult(cmd \o <<ProbeArg(p)>>, None, <<>>, NotFoundText, FALSE))
    /\ UNCHANGED children

\* Any other OSError of the spawn (PermissionError, ...): run_cmd does not catch it.
SpawnOSError(p) ==
    /\ Enter(p)
    /\ pc' = "crashed"
    /\ UNCHANGED <<findings, res, children, summary, exitCode>>

\* The child runs to its end within the timeout.
ChildExit(p) ==
    /\ pc = Wait(p)
    /\ \E x \in Exits(p) :
          Resume(p, RunResult(cmd \o <<ProbeArg(p)>>, Some(x.code),
                              _decode(x.out), _decode(x.err), FALSE))
    /\ children' = ReapExited(children, Len(calls))
    /\ UNCHANGED <<cmd, located, strict, environ, calls>>

\* The timeout expires first: TimeoutExpired, with the output captured so far.
ChildTimeout(p) ==
    /\ pc = Wait(p)
    /\ \E x \in Partials(p) :
          Resume(p, RunResult(cmd \o <<ProbeArg(p)>>, None,
                              _decode(x.out), _decode(x.err), TRUE))
    /\ children' = KillAndReap(children, Len(calls))
    /\ UNCHANGED <<cmd, located, strict, environ, calls>>

Next ==
    \/ Preflight
    \/ \E p \in ProbeSet : SpawnOk(p)
    \/ \E p \in ProbeSet : SpawnNotFound(p)
    \/ \E p \in ProbeSet : SpawnOSError(p)
    \/ \E p \in ProbeSet : ChildExit(p)
    \/ \E p \in ProbeSet : ChildTimeout(p)

Spec == Init /\ [][Next]_vars

-----------------------------------------------------------------------------
(* The report layout: the titles a finding can carry, slot by slot, in the   *)
(* order of the probe sequence.                                              *)

ReportSlots ==
    << {"--help timed out", "--help failed to execute", "--help exits with code 0"}
           \cup {"--help exit code was " \o ToString(c) : c \in ExitCodes},
       {"--help produced no output",
        "--help output looks like help (usage/options/commands detected)",
        "--help output did not obviously look like help"},
       {"Help printed to stdout", "Help printed to stderr",
        "Help printed to both stdout and stderr"},
       {"-h timed out", "-h works (exit 0)", "-h did not behave like help"},
       {"Invalid-flag probe timed out", "Invalid-flag probe failed to execute",
        "Unknown flag returned exit code 0"}
           \cup {"Unknown flag returns non-zero (" \o ToString(c) \o ")" : c \in ExitCodes},
       {"Unknown-flag error printed to stderr", "Unknown-flag error not printed to stderr"},
       {"Unknown-flag error mentions --help", "Unknown-flag error does not mention --help"},
       {"Error output includes a stack trace marker"},
       {"Help mentions --version", "Help does not mention --version"},
       {"Help mentions --json", "Help does not mention --json"},
       {"Help mentions --plain", "Help does not mention --plain"},
       {"Help mentions color controls (--no-color and/or NO_COLOR)",
        "Help does not mention color controls"},
       {"Help mentions --no-input", "Help does not mention --no-input"},
       {"ANSI escape sequences detected in --help output (captured/non-TTY)",
        "No ANSI escape sequences detected in captured --help output"},
       {"Carriage returns detected in --help output"},
       {"ANSI still present with NO_COLOR=1",
        "NO_COLOR=1 produced no ANSI sequences (best-effort check)"},
       {"ANSI still present with TERM=dumb",
        "TERM=dumb produced no ANSI sequences (best-effort check)"} >>

\* The slot of a title (0: a title no rule emits).
SlotOf(title) ==
    IF \E k \in 1..Len(ReportSlots) : title \in ReportSlots[k]
    THEN CHOOSE k \in 1..Len(ReportSlots) : title \in ReportSlots[k]
    ELSE 0

\* The slots of the findings each probe emits.
ProbeSlots(p) ==
    CASE p = "help" -> {1, 2, 3}
      [] p = "h" -> {4}
      [] p = "bad" -> {5, 6, 7, 8}
      [] p = "no_color" -> {16}
      [] p = "dumb_term" -> {17}

\* The slots of the convention checks and of the ANSI/animation checks.
ConventionSlots == {9, 10, 11, 12, 13}

AnsiSlots == {14, 15}

HasFinding(level, title) ==
    \E i \in 1..Len(findings) : findings[i].level = level /\ findings[i].title = title

HasTitle(title) == \E i \in 1..Len(findings) : findings[i].title = title

\* The number of findings of a level, counted along the list.
RECURSIVE NumLevel(_, _)
NumLevel(fs, level) ==
    IF fs = <<>> THEN 0
    ELSE (IF Head(fs).level = level THEN 1 ELSE 0) + NumLevel(Tail(fs), level)

\* main ran to its summary (it got past the pre-flight checks and returned).
Completed == pc = "done" /\ calls # <<>>

\* The probe p was run and did not end normally (timeout or failure to start).
ProbeFailed(p) == res[p].argv # <<>> /\ ~Normal(res[p])

\* The number of probes whose findings are in the list.
Evaluated ==
    IF pc = "preflight" THEN 0
    ELSE IF pc = "done" THEN (IF calls = <<>> THEN 0 ELSE 5)
    ELSE IF pc = "crashed" THEN Len(calls) - 1
    ELSE IF \E k \in 1..5 : pc = Wait(Probes[k]) THEN Len(calls) - 1
    ELSE Len(calls)

IsPrefix(a, b) == Len(a) <= Len(b) /\ SubSeq(b, 1, Len(a)) = a

-----------------------------------------------------------------------------
(* Properties *)

\* C1: when main returns after the summary, the exit code is 1 if there is a FAIL
\* finding, else 1 if strict is set and there is a WARN finding, else 0 (so it is 0
\* exactly when there is no FAIL and strict is off or there is no WARN), and the
\* summary prints the numbers of FAIL and WARN findings of the list.
C1_ExitCodePolicy ==
    Completed =>
        LET f == NumLevel(findings, "FAIL")
            w == NumLevel(findings, "WARN")
        IN  /\ summary = <<f, w>>
            /\ f > 0 => exitCode = Some(1)
            /\ f = 0 /\ strict /\ w > 0 => exitCode = Some(1)
            /\ f = 0 /\ ~(strict /\ w > 0) => exitCode = Some(0)
            /\ exitCode = Some(0) <=> (f = 0 /\ (~strict \/ w = 0))

\* A strict run without FAIL findings that a WARN finding turns into exit code 1.
C1_Witness ==
    /\ Completed
    /\ strict
    /\ NumLevel(findings, "FAIL") = 0
    /\ NumLevel(findings, "WARN") > 0
    /\ exitCode = Some(1)

\* C2 (state part): exit code 2 means no command was left, exit code 127 means the
\* executable was found neither on the PATH nor as a path; with either code no
\* probe was called, no child exists and no finding was made; once a probe was
\* called the executable had been located and the codes 2 and 127 are not returned.
C2_PreflightInv ==
    /\ pc # "preflight" => (exitCode = Some(2) <=> cmd = <<>>)
    /\ exitCode = Some(127) <=> located = Some(FALSE)
    /\ exitCode \in {Some(2), Some(127)} =>
          pc = "done" /\ calls = <<>> /\ children = {} /\ findings = <<>> /\ summary = None
    /\ calls # <<>> => located = Some(TRUE) /\ exitCode \notin {Some(2), Some(127)}

\* C2: pre-flight short-circuit.  An empty command or a lone "--" ends the run with
\* exit code 2, a target that is not located ends it with 127, both before any
\* probe; 2 and 127 are never returned after a probe was started.
C2_Preflight ==
    /\ []C2_PreflightInv
    /\ [][pc = "preflight" /\ cmd \in {<<>>, <<"--">>}
            => pc' = "done" /\ exitCode' = Some(2) /\ calls' = <<>>]_vars

\* The run that ends with 127 because the target is nowhere.
C2_Witness ==
    /\ pc = "done"
    /\ exitCode = Some(127)
    /\ cmd = <<"tool">>
    /\ calls = <<>>

\* C3: the engine is total past the pre-flight checks: whatever becomes of a spawn
\* attempt, run_cmd returns a RunResult, no exception leaves main, and a run that
\* called a probe calls all five and returns 0 or 1.
C3_Total ==
    /\ pc # "crashed"
    /\ pc = "done" /\ calls # <<>> =>
          Len(calls) = Len(Probes) /\ exitCode \in {Some(0), Some(1)}

\* C4: a probe that timed out or failed to start has, among the findings of that
\* probe, at least one of level FAIL or WARN.
C4_FailureReported ==
    \A p \in ProbeSet :
        ProbeFailed(p) =>
            \E i \in 1..Len(findings) :
                /\ SlotOf(findings[i].title) \in ProbeSlots(p)
                /\ findings[i].level \in {"FAIL", "WARN"}

\* C5: when the invalid-flag probe exits normally with status 0, the FAIL finding
\* "Unknown flag returned exit code 0" is in the list and the run returns 1; when
\* it exits normally with another status c, the finding is the PASS that reports c
\* and that FAIL is absent.
C5_UnknownFlag ==
    Normal(bad_res) =>
        LET c == bad_res.returncode[1]
        IN  IF c = 0
            THEN /\ HasFinding("FAIL", "Unknown flag returned exit code 0")
                 /\ pc = "done" => exitCode = Some(1)
            ELSE /\ HasFinding("PASS", "Unknown flag returns non-zero ("
                                          \o ToString(c) \o ")")
                 /\ ~HasTitle("Unknown flag returned exit code 0")

\* A non-strict run whose only FAIL is the exit status 0 of the unknown flag.
C5_Witness ==
    /\ pc = "done"
    /\ ~strict
    /\ bad_res.returncode = Some(0)
    /\ NumLevel(findings, "FAIL") = 1
    /\ h_res.timed_out
    /\ exitCode = Some(1)

\* C6: a child is alive only while main waits for it, so at most one is alive at a
\* time, none when a probe is called and none when main has returned; and when the
\* --help probe timed out, the first finding is FAIL "--help timed out", no other
\* finding of that probe follows, and the run returns 1 whatever strict is.
C6_HelpTimeout ==
    /\ Cardinality(children) <= 1
    /\ children # {} =>
          /\ children = {Len(calls)}
          /\ pc = Wait(Probes[Len(calls)])
    /\ help_res.timed_out =>
          /\ Len(findings) >= 1
          /\ findings[1].level = "FAIL"
          /\ findings[1].title = "--help timed out"
          /\ \A i \in 2..Len(findings) :
                SlotOf(findings[i].title) \notin ProbeSlots("help")
          /\ pc = "done" => exitCode = Some(1)

\* The -h child is alive after the --help child timed out.
C6_Witness ==
    /\ help_res.timed_out
    /\ pc = Wait("h")
    /\ children = {2}
    /\ Len(findings) = 1

\* The --help probe ended normally with status 0 and output that is not blank.
HelpSucceeded ==
    /\ Normal(help_res)
    /\ help_res.returncode = Some(0)
    /\ \E t \in {help_res.stdout, help_res.stderr} :
          \E i \in 1..Len(t) : ~IsSpace(t[i])

\* The invalid-flag probe ended normally with a status other than 0.
BadRejected == Normal(bad_res) /\ bad_res.returncode # Some(0)

\* C7: a FAIL finding is a finding of the --help probe or of the invalid-flag
\* probe; from the evaluation of the invalid-flag probe on, whatever the later
\* probes do, there is no FAIL exactly when --help exited with 0 and output that
\* is not blank and the invalid flag exited with a status other than 0, which,
\* strict being off, is when main returns 0.
C7_FailSources ==
    /\ \A i \in 1..Len(findings) :
          findings[i].level = "FAIL" =>
              SlotOf(findings[i].title) \in ProbeSlots("help") \cup ProbeSlots("bad")
    /\ Evaluated >= 3 =>
          (NumLevel(findings, "FAIL") = 0 <=> (HelpSucceeded /\ BadRejected))
    /\ Completed /\ ~strict =>
          (exitCode = Some(0) <=> (HelpSucceeded /\ BadRejected))

\* A non-strict run that returns 0 although three probes did not end normally.
C7_Witness ==
    /\ Completed
    /\ ~strict
    /\ HelpSucceeded /\ BadRejected
    /\ h_res.timed_out
    /\ no_color_res.timed_out
    /\ ProbeFailed("dumb_term")
    /\ exitCode = Some(0)

\* C8: when the --help probe exits normally there is exactly one channel finding:
\* PASS "Help printed to stdout" exactly when only stdout has output, WARN "Help
\* printed to stderr" exactly when only stderr has, WARN "Help printed to both
\* stdout and stderr" exactly when both have (output: text left after strip()).
C8_Channel ==
    Normal(help_res) =>
        LET out == Strip(help_res.stdout) # <<>>
            err == Strip(help_res.stderr) # <<>>
        IN  /\ Cardinality({i \in 1..Len(findings) : SlotOf(findings[i].title) = 3}) = 1
            /\ HasFinding("PASS", "Help printed to stdout") <=> (out /\ ~err)
            /\ HasFinding("WARN", "Help printed to stderr") <=> (err /\ ~out)
            /\ HasFinding("WARN", "Help printed to both stdout and stderr") <=> (out /\ err)

\* The argument and the environment overrides of the five calls, in order.
ExpectedArg == <<"--help", "-h", "--definitely-not-a-real-flag-xyz", "--help", "--help">>

ExpectedOverrides ==
    << [k \in {} |-> ""], [k \in {} |-> ""], [k \in {} |-> ""],
       [k \in {"NO_COLOR"} |-> "1"], [k \in {"TERM"} |-> "dumb"] >>

\* The slots that are filled once k probes were evaluated, and those that may be.
RequiredSlots(k) ==
    (IF k >= 1 THEN {1} ELSE {})
    \cup (IF k >= 2 THEN {4} ELSE {})
    \cup (IF k >= 3 THEN {5} \cup ConventionSlots \cup {14} ELSE {})
    \cup (IF k >= 4 THEN {16} ELSE {})
    \cup (IF k >= 5 THEN {17} ELSE {})

AllowedSlots(k) ==
    (IF k >= 1 THEN ProbeSlots("help") ELSE {})
    \cup (IF k >= 2 THEN ProbeSlots("h") ELSE {})
    \cup (IF k >= 3 THEN ProbeSlots("bad") \cup ConventionSlots \cup AnsiSlots ELSE {})
    \cup (IF k >= 4 THEN ProbeSlots("no_color") ELSE {})
    \cup (IF k >= 5 THEN ProbeSlots("dumb_term") ELSE {})

\* The slots of the findings, in the order of the list.
FindingSlots == [i \in 1..Len(findings) |-> SlotOf(findings[i].title)]

\* C9 (state part): the calls made so far are the first calls of the sequence
\* --help, -h, invalid flag, --help with NO_COLOR=1, --help with TERM=dumb, each
\* made once; a completed run made all five; the findings stand in slot order;
\* when a probe is called the findings of all earlier steps, and only those, are
\* in the list; and when the NO_COLOR probe is about to be called, the convention
\* and ANSI findings just made are those of the result of the first --help call.
C9_OrderInv ==
    /\ Len(calls) <= 5
    /\ \A i \in 1..Len(calls) :
          /\ calls[i].argv = cmd \o <<ExpectedArg[i]>>
          /\ \A k \in DOMAIN ExpectedOverrides[i] :
                k \in DOMAIN calls[i].env /\ calls[i].env[k] = ExpectedOverrides[i][k]
    /\ Completed => Len(calls) = 5
    /\ LET slots == FindingSlots
       IN  /\ \A i \in 1..Len(slots) : slots[i] > 0
           /\ \A i \in 1..(Len(slots) - 1) : slots[i] < slots[i + 1]
           /\ {slots[i] : i \in 1..Len(slots)} \subseteq AllowedSlots(Evaluated)
           /\ RequiredSlots(Evaluated) \subseteq {slots[i] : i \in 1..Len(slots)}
    /\ pc = Call("no_color") =>
          LET m == find_flag_mentions(JoinLF(help_res.stdout, help_res.stderr))
          IN  /\ HasFinding("PASS", "Help mentions --version") <=> m.version
              /\ HasFinding("PASS", "Help mentions --json") <=> m.json
              /\ HasFinding("PASS", "Help mentions --plain") <=> m.plain
              /\ HasFinding("PASS",
                    "Help mentions color controls (--no-color and/or NO_COLOR)")
                    <=> (m.no_color \/ m.NO_COLOR)
              /\ HasFinding("PASS", "Help mentions --no-input") <=> m.no_input
              /\ HasFinding("WARN",
                    "ANSI escape sequences detected in --help output (captured/non-TTY)")
                    <=> (has_ansi(help_res.stdout) \/ has_ansi(help_res.stderr))
              /\ HasTitle("Carriage returns detected in --help output")
                    <=> (has_carriage_returns(help_res.stdout)
                            \/ has_carriage_returns(help_res.stderr))

C10_EnvInv ==
    \A i \in 1..Len(calls) :
        LET e == calls[i].env
            ov == ExpectedOverrides[i]
        IN  /\ DOMAIN e = (DOMAIN environ) \cup (DOMAIN ov)
            /\ \A k \in DOMAIN e : e[k] = IF k \in DOMAIN ov THEN ov[k] ELSE environ[k]

\* C10: environment overrides are scoped to one child: every child gets a copy of
\* os.environ with the overrides of its probe, and os.environ itself never changes.
C10_EnvScoped ==
    /\ []C10_EnvInv
    /\ [][environ' = environ]_vars

\* The TERM=dumb child does not see the NO_COLOR=1 of the child before it.
C10_Witness ==
    /\ Len(calls) = 5
    /\ "NO_COLOR" \notin DOMAIN environ
    /\ calls[4].env["NO_COLOR"] = "1"
    /\ "NO_COLOR" \notin DOMAIN calls[5].env
    /\ calls[5].env["TERM"] = "dumb"
    /\ calls[4].env["TERM"] = "xterm"
    /\ environ["TERM"] = "xterm"

====
